---- MODULE Spec2Model ----
(***************************************************************************)
(* Model of package slowdown (src/delay.go): the middleware Delay, which   *)
(* adds an artificial latency before and after an http.HandlerFunc.        *)
(*                                                                         *)
(* Durations are time.Duration values kept in milliseconds.  Texts (header *)
(* values) are sequences of one-character strings, so that parsing a       *)
(* duration is a computation on the characters.                            *)
(***************************************************************************)
EXTENDS Integers, Sequences, FiniteSets, TLC

VARIABLES
    cfg,        \* the config built by Delay and captured by the returned closure
    opts,       \* the options Delay has applied so far (its variadic argument)
    built,      \* TRUE once Delay has returned the delayed handler
    req,        \* per request: the *http.Request (its headers), or NoRequest
    pc,         \* per request: position of its goroutine in the delayed handler
    cancelled,  \* per request: r.Context() is done
    timer,      \* per request: time left before the time.After channel fires
    dur,        \* per request and phase: <<d>> for the d given to time.After, or NoDelay
    waited,     \* per request and phase: time elapsed blocked in select
    invoked,    \* per request: number of calls of the wrapped handler h
    passed,     \* per request: the request h was called with, or NoRequest
    response,   \* per request: what has been written to the ResponseWriter
    called,     \* per request and phase: the predicates checkConditions called
    outcome,    \* per request and phase: the case of the select that ran, or NoOutcome
    outer       \* the delayed handler wrapped by Delay once more: see DelayAgain

vars == <<cfg, opts, built, req, pc, cancelled, timer, dur, waited,
          invoked, passed, response, called, outcome, outer>>

reqVars == <<req, pc, cancelled, timer, dur, waited, invoked, passed,
             response, called, outcome>>

(***************************************************************************)
(* Bounds of the model.                                                    *)
(***************************************************************************)
MaxOpts == 3        \* longest option list given to Delay
Quantum == 250      \* largest step by which time is observed to advance

(***************************************************************************)
(* time.Duration units, in milliseconds.                                   *)
(***************************************************************************)
Millisecond == 1
Second == 1000

DefaultBefore == 1 * Second
DefaultMax == 20 * Second

\* No request (nil), and no duration: sleep has not reached time.After.
NoRequest == [header |-> << >>]
NoDelay == << >>
NoTimer == 0      \* no timer is running: nothing is left to elapse
NoOutcome == "none"

(***************************************************************************)
(* Texts.                                                                  *)
(***************************************************************************)
Digit == {"0", "1", "2", "3", "4", "5", "6", "7", "8", "9"}

DigitVal(c) ==
    CASE c = "0" -> 0 [] c = "1" -> 1 [] c = "2" -> 2 [] c = "3" -> 3
      [] c = "4" -> 4 [] c = "5" -> 5 [] c = "6" -> 6 [] c = "7" -> 7
      [] c = "8" -> 8 [] c = "9" -> 9

Empty == << >>

\* time.ParseDuration's unit table; each unit as a fraction of a millisecond.
unitMap ==
    (<<"n", "s">> :> [num |-> 1, den |-> 1000000]) @@
    (<<"u", "s">> :> [num |-> 1, den |-> 1000]) @@
    (<<"m", "s">> :> [num |-> 1, den |-> 1]) @@
    (<<"s">> :> [num |-> 1000, den |-> 1]) @@
    (<<"m">> :> [num |-> 60000, den |-> 1]) @@
    (<<"h">> :> [num |-> 3600000, den |-> 1])

RECURSIVE leadingInt(_, _)
leadingInt(s, v) ==
    IF s # Empty /\ Head(s) \in Digit
    THEN leadingInt(Tail(s), v * 10 + DigitVal(Head(s)))
    ELSE [v |-> v, rest |-> s]

RECURSIVE leadingFraction(_, _, _)
leadingFraction(s, f, scale) ==
    IF s # Empty /\ Head(s) \in Digit
    THEN leadingFraction(Tail(s), f * 10 + DigitVal(Head(s)), scale * 10)
    ELSE [f |-> f, scale |-> scale, rest |-> s]

\* Length of the unit at the start of s: the characters up to the next
\* '.' or digit.
RECURSIVE unitLen(_)
unitLen(s) ==
    IF s = Empty \/ Head(s) = "." \/ Head(s) \in Digit
    THEN 0
    ELSE 1 + unitLen(Tail(s))

ParseError == [ok |-> FALSE, d |-> 0]

\* The loop of time.ParseDuration: ([0-9]*(\.[0-9]*)?[a-z]+)+ , summing
\* the terms into d.
RECURSIVE parseTerms(_, _)
parseTerms(s, d) ==
    IF s = Empty THEN [ok |-> TRUE, d |-> d]
    ELSE IF ~(Head(s) = "." \/ Head(s) \in Digit) THEN ParseError
    ELSE
      LET li == leadingInt(s, 0)
          pre == Len(li.rest) # Len(s)
          hasDot == li.rest # Empty /\ Head(li.rest) = "."
          afterDot == IF hasDot THEN Tail(li.rest) ELSE li.rest
          lf == IF hasDot THEN leadingFraction(afterDot, 0, 1)
                ELSE [f |-> 0, scale |-> 1, rest |-> afterDot]
          post == hasDot /\ Len(lf.rest) # Len(afterDot)
          i == unitLen(lf.rest)
          u == SubSeq(lf.rest, 1, i)
          rest == SubSeq(lf.rest, i + 1, Len(lf.rest))
      IN  IF ~pre /\ ~post THEN ParseError
          ELSE IF i = 0 THEN ParseError
          ELSE IF u \notin DOMAIN unitMap THEN ParseError
          ELSE parseTerms(rest,
                          d + (li.v * unitMap[u].num) \div unitMap[u].den
                            + (lf.f * unitMap[u].num)
                                \div (lf.scale * unitMap[u].den))

\* time.ParseDuration: [-+]?([0-9]*(\.[0-9]*)?[a-z]+)+ , or "0".
ParseDuration(value) ==
    LET signed == value # Empty /\ Head(value) \in {"-", "+"}
        neg == signed /\ Head(value) = "-"
        s == IF signed THEN Tail(value) ELSE value
    IN  IF s = <<"0">> THEN [ok |-> TRUE, d |-> 0]
        ELSE IF s = Empty THEN ParseError
        ELSE LET p == parseTerms(s, 0)
             IN  IF ~p.ok THEN ParseError
                 ELSE [ok |-> TRUE, d |-> IF neg THEN 0 - p.d ELSE p.d]

(***************************************************************************)
(* Inputs: the option arguments and the requests.                          *)
(***************************************************************************)
FixedValues == {0 - 100 * Millisecond, 0, 300 * Millisecond, 700 * Millisecond}
MaxValues == {0 - 100 * Millisecond, 500 * Millisecond}
Prefixes == {"", "delay"}

\* The predicates of the package's tests.
Predicates == {"isAdmin", "hasValidAPIKey"}

Admin == <<"a", "d", "m", "i", "n">>
Ted == <<"t", "e", "d">>
ValidKey == <<"x", "9", "6", "f", "3", "s", "6">>
InvalidKey == <<"p", "a", "s", "s", "w", "0", "r", "d">>
validAPIKeys == {ValidKey, <<"8", "9", "q", "W", "s", "d", "2">>}

\* Header values a client may send for "delay-before" and "delay-after";
\* Empty stands for a header that is not set.
HeaderValues ==
    { Empty,
      <<"3", "0", "0", "m", "s">>,
      <<"0", ".", "7", "s">>,
      <<"1", "m">>,
      <<"-", "1", "s">>,
      <<"5">> }

HeaderNames == {"delay-before", "delay-after", "user", "apikey"}

RequestInputs ==
    { [header |-> [n \in HeaderNames |->
                     CASE n = "delay-before" -> b
                       [] n = "delay-after" -> a
                       [] n = "user" -> u
                       [] n = "apikey" -> k]] :
        b \in HeaderValues, a \in HeaderValues,
        u \in {Admin, Ted}, k \in {ValidKey, InvalidKey} }

\* What the wrapped handler of the tests writes.
HelloWorld == "Hello world\n"

Phases == {"before", "after"}

(***************************************************************************)
(* The config and the options.                                             *)
(***************************************************************************)
\* DefaultConfig, without the default of max.
DefaultConfigNoMax ==
    [fixedDurationBefore |-> DefaultBefore,
     fixedDurationAfter  |-> 0,
     headerPrefix        |-> "",
     max                 |-> 0,
     conditions          |-> << >>]

DefaultConfig ==
    [fixedDurationBefore |-> DefaultBefore,
     fixedDurationAfter  |-> 0,
     headerPrefix        |-> "",
     max                 |-> DefaultMax,
     conditions          |-> << >>]

\* FixedOption, taking a zero duration for "not given".
FixedOptionUnlessZero(c, before, after) ==
    [c EXCEPT !.fixedDurationBefore = IF before = 0 THEN @ ELSE before,
              !.fixedDurationAfter = IF after = 0 THEN @ ELSE after]

\* FixedOption, also leaving header mode.
FixedOptionClearingHeader(c, before, after) ==
    [c EXCEPT !.fixedDurationBefore = before, !.fixedDurationAfter = after,
              !.headerPrefix = ""]

FixedOption(c, before, after) ==
    [c EXCEPT !.fixedDurationBefore = before, !.fixedDurationAfter = after]

\* HeaderOption, taking an empty prefix for "no change".
HeaderOptionUnlessEmpty(c, prefix) ==
    IF prefix = "" THEN c ELSE [c EXCEPT !.headerPrefix = prefix]

HeaderOption(c, prefix) == [c EXCEPT !.headerPrefix = prefix]

\* MaxOption, only ever lowering the limit.
MaxOptionLowering(c, maxDuration) ==
    [c EXCEPT !.max = IF maxDuration < @ THEN maxDuration ELSE @]

MaxOption(c, maxDuration) == [c EXCEPT !.max = maxDuration]

ConditionOption(c, predicate) ==
    [c EXCEPT !.conditions = Append(c.conditions, predicate)]

\* The requests the transport hands to the delayed handler.
Requests == DOMAIN pc

\* The delayed handler has not been given to Delay a second time.
NotWrapped(R) ==
    [built  |-> FALSE,
     opts   |-> << >>,
     cfg    |-> DefaultConfig,
     pc     |-> [r \in R |-> "idle"],
     timer  |-> [r \in R |-> NoTimer],
     waited |-> [r \in R |-> 0]]

InitWith(R) ==
    /\ cfg = DefaultConfig
    /\ opts = << >>
    /\ built = FALSE
    /\ req = [r \in R |-> NoRequest]
    /\ pc = [r \in R |-> "idle"]
    /\ cancelled = [r \in R |-> FALSE]
    /\ timer = [r \in R |-> NoTimer]
    /\ dur = [r \in R |-> [p \in Phases |-> NoDelay]]
    /\ waited = [r \in R |-> [p \in Phases |-> 0]]
    /\ invoked = [r \in R |-> 0]
    /\ passed = [r \in R |-> NoRequest]
    /\ response = [r \in R |-> << >>]
    /\ called = [r \in R |-> [p \in Phases |-> << >>]]
    /\ outcome = [r \in R |-> [p \in Phases |-> NoOutcome]]
    /\ outer = NotWrapped(R)

Init == InitWith({1})

\* One iteration of "for _, opt := range opts { opt(&cfg) }".
ApplyOption(opt, c) ==
    /\ ~built
    /\ Len(opts) < MaxOpts
    /\ cfg' = c
    /\ opts' = Append(opts, opt)
    /\ UNCHANGED <<built, reqVars, outer>>

Fixed ==
    \E before \in FixedValues, after \in FixedValues :
        ApplyOption([kind |-> "Fixed", before |-> before, after |-> after],
                    FixedOption(cfg, before, after))

Header ==
    \E prefix \in Prefixes :
        ApplyOption([kind |-> "Header", prefix |-> prefix],
                    HeaderOption(cfg, prefix))

Max ==
    \E maxDuration \in MaxValues :
        ApplyOption([kind |-> "Max", maxDuration |-> maxDuration],
                    MaxOption(cfg, maxDuration))

Condition ==
    \E predicate \in Predicates :
        ApplyOption([kind |-> "Condition", predicate |-> predicate],
                    ConditionOption(cfg, predicate))

\* Delay returns the closure, which captures cfg and h; opts goes out of
\* scope.
Delay ==
    /\ ~built
    /\ built' = TRUE
    /\ opts' = << >>
    /\ UNCHANGED <<cfg, reqVars, outer>>

(***************************************************************************)
(* Resolving the duration of a phase (config.sleep).                       *)
(***************************************************************************)
\* r.Header.Get(name): "" when the header is not set.  Names are taken as
\* the server has canonicalised them, the same way on both sides.
Get(header, name) == IF name \in DOMAIN header THEN header[name] ELSE Empty

\* time.ParseDuration of each header value a request of the model can carry,
\* parsed once.
ParsedHeaderValues == [value \in HeaderValues |-> ParseDuration(value)]

readHeaderDuration(r, name) ==
    LET value == Get(r.header, name)
    IN  IF value = Empty THEN [d |-> 0, ok |-> FALSE]
        ELSE LET p == ParsedHeaderValues[value]
             IN  IF ~p.ok THEN [d |-> 0, ok |-> FALSE]
                 ELSE [d |-> p.d, ok |-> TRUE]

\* The predicates given to Condition in the tests.
Eval(predicate, r) ==
    CASE predicate = "isAdmin" -> Get(r.header, "user") = Admin
      [] predicate = "hasValidAPIKey" -> Get(r.header, "apikey") \in validAPIKeys

\* The loop of checkConditions from the i-th condition on: its result and
\* the predicates it calls, in order.
RECURSIVE checkFrom(_, _, _)
checkFrom(conditions, i, r) ==
    IF i > Len(conditions) THEN [ok |-> TRUE, called |-> << >>]
    ELSE IF ~Eval(conditions[i], r)
         THEN [ok |-> FALSE, called |-> <<conditions[i]>>]
         ELSE LET rest == checkFrom(conditions, i + 1, r)
              IN  [ok |-> rest.ok, called |-> <<conditions[i]>> \o rest.called]

\* checkConditions, looking at the first condition only.
checkFirstCondition(c, r) ==
    IF c.conditions = << >> THEN [ok |-> TRUE, called |-> << >>]
    ELSE [ok |-> Eval(c.conditions[1], r), called |-> <<c.conditions[1]>>]

\* checkConditions, calling every predicate before answering.
checkEveryCondition(c, r) ==
    [ok |-> \A i \in 1..Len(c.conditions) : Eval(c.conditions[i], r),
     called |-> c.conditions]

checkConditions(c, r) == checkFrom(c.conditions, 1, r)

\* requested, taking the before-duration in both phases.
requestedBeforeOnly(c, r, beforeOrAfter) ==
    IF c.headerPrefix # ""
    THEN readHeaderDuration(r, c.headerPrefix \o "-" \o "before").d
    ELSE c.fixedDurationBefore

\* requested, falling back on the fixed duration when the header gives none.
requestedOrFixed(c, r, beforeOrAfter) ==
    LET h == readHeaderDuration(r, c.headerPrefix \o "-" \o beforeOrAfter)
    IN  IF c.headerPrefix # "" /\ h.ok
        THEN h.d
        ELSE CASE beforeOrAfter = "before" -> c.fixedDurationBefore
               [] beforeOrAfter = "after" -> c.fixedDurationAfter

\* The duration sleep starts from: the header's in header mode, else the
\* fixed one of the phase.
requested(c, r, beforeOrAfter) ==
    IF c.headerPrefix # ""
    THEN readHeaderDuration(r, c.headerPrefix \o "-" \o beforeOrAfter).d
    ELSE CASE beforeOrAfter = "before" -> c.fixedDurationBefore
           [] beforeOrAfter = "after" -> c.fixedDurationAfter

\* capped, taking a max that is not positive for no limit at all.
cappedByPositiveMax(c, d) == IF c.max > 0 /\ d > c.max THEN c.max ELSE d

\* capped, without the cap.
uncapped(c, d) == d

\* capped, with a floor at zero.
cappedAndFloored(c, d) == IF d > c.max THEN c.max ELSE IF d < 0 THEN 0 ELSE d

\* "if d > cfg.max { d = cfg.max }"
capped(c, d) == IF d > c.max THEN c.max ELSE d

resolved(c, r, beforeOrAfter) == capped(c, requested(c, r, beforeOrAfter))

(***************************************************************************)
(* The delayed handler: the closure returned by Delay, run by one          *)
(* goroutine per request.                                                  *)
(*   idle          no request yet                                          *)
(*   start         the closure is entered                                  *)
(*   beforeWait    blocked in the select of cfg.before                     *)
(*   afterBefore   cfg.before has returned                                 *)
(*   invoking      inside h(w, r)                                          *)
(*   afterHandler  h has returned                                          *)
(*   afterWait     blocked in the select of cfg.after                      *)
(*   cancelledEarly, done   the closure has returned                       *)
(***************************************************************************)
waitOf(beforeOrAfter) ==
    CASE beforeOrAfter = "before" -> "beforeWait"
      [] beforeOrAfter = "after" -> "afterWait"

returnOf(beforeOrAfter) ==
    CASE beforeOrAfter = "before" -> "afterBefore"
      [] beforeOrAfter = "after" -> "done"

phaseOf(r) == IF pc[r] = "beforeWait" THEN "before" ELSE "after"

Waiting(r) == pc[r] \in {"beforeWait", "afterWait"}

\* The transport hands a request to the delayed handler.
ArriveFrom(r, inputs) ==
    /\ built
    /\ pc[r] = "idle"
    /\ \E in \in inputs : req' = [req EXCEPT ![r] = in]
    /\ pc' = [pc EXCEPT ![r] = "start"]
    /\ UNCHANGED <<cfg, opts, built, cancelled, timer, dur, waited, invoked,
                   passed, response, called,
                   outcome, outer>>

Arrive(r) == ArriveFrom(r, RequestInputs)

\* The transport cancels the request's context (client gone, deadline).
Cancel(r) ==
    /\ pc[r] # "idle"
    /\ ~cancelled[r]
    /\ cancelled' = [cancelled EXCEPT ![r] = TRUE]
    /\ UNCHANGED <<cfg, opts, built, req, pc, timer, dur, waited, invoked,
                   passed, response, called,
                   outcome, outer>>

\* sleep, checking the conditions in the before-phase only.
sleepGatingBefore(r, beforeOrAfter) ==
    LET cc == IF beforeOrAfter = "before" THEN checkConditions(cfg, req[r])
              ELSE [ok |-> TRUE, called |-> << >>]
        d == resolved(cfg, req[r], beforeOrAfter)
    IN  /\ called' = [called EXCEPT ![r][beforeOrAfter] = cc.called]
        /\ IF ~cc.ok
           THEN /\ pc' = [pc EXCEPT ![r] = returnOf(beforeOrAfter)]
                /\ UNCHANGED <<timer, dur>>
           ELSE /\ pc' = [pc EXCEPT ![r] = waitOf(beforeOrAfter)]
                /\ timer' = [timer EXCEPT ![r] = d]
                /\ dur' = [dur EXCEPT ![r][beforeOrAfter] = <<d>>]

\* config.sleep up to its select: returns at once when a condition is not
\* met, else starts the timer of time.After(d).
sleep(r, beforeOrAfter) ==
    LET cc == checkConditions(cfg, req[r])
        d == resolved(cfg, req[r], beforeOrAfter)
    IN  /\ called' = [called EXCEPT ![r][beforeOrAfter] = cc.called]
        /\ IF ~cc.ok
           THEN /\ pc' = [pc EXCEPT ![r] = returnOf(beforeOrAfter)]
                /\ UNCHANGED <<timer, dur>>
           ELSE /\ pc' = [pc EXCEPT ![r] = waitOf(beforeOrAfter)]
                /\ timer' = [timer EXCEPT ![r] = d]
                /\ dur' = [dur EXCEPT ![r][beforeOrAfter] = <<d>>]

\* before, also writing a response header of its own.
beforeWriting(r) ==
    /\ pc[r] = "start"
    /\ sleep(r, "before")
    /\ response' = [response EXCEPT ![r] = Append(@, "X-Delayed")]
    /\ UNCHANGED <<cfg, opts, built, req, cancelled, waited, invoked, passed,
                   outcome, outer>>

\* before, calling sleep for the after-phase.
beforeSleepingAfter(r) ==
    /\ pc[r] = "start"
    /\ sleep(r, "after")
    /\ UNCHANGED <<cfg, opts, built, req, cancelled, waited, invoked, passed,
                   response, outcome, outer>>

\* "cfg.before(w, r)"
before(r) ==
    /\ pc[r] = "start"
    /\ sleep(r, "before")
    /\ UNCHANGED <<cfg, opts, built, req, cancelled, waited, invoked, passed,
                   response,
                   outcome, outer>>

\* The select of sleep, without its case on r.Context().Done(): time.Sleep(d).
noDoneCase(r) == FALSE

\* doneCase, for an after-phase that sleeps without watching the context.
doneCaseBeforeOnly(r) == cancelled[r] /\ pc[r] = "beforeWait"

\* "case <-r.Context().Done():" can be received from.
doneCase(r) == cancelled[r]

\* timerCase, for a timer that fires only on reaching zero.
timerCaseAtZero(r) == timer[r] = 0

\* "case <-time.After(d):" can be received from.
timerCase(r) == timer[r] <= 0

\* Time passes for a goroutine blocked in select with neither channel ready.
Tick(r) ==
    /\ Waiting(r)
    /\ ~doneCase(r)
    /\ timer[r] > 0
    /\ LET step == IF timer[r] < Quantum THEN timer[r] ELSE Quantum
       IN  /\ timer' = [timer EXCEPT ![r] = timer[r] - step]
           /\ waited' = [waited EXCEPT ![r][phaseOf(r)] = @ + step]
    /\ UNCHANGED <<cfg, opts, built, req, pc, cancelled, dur, invoked, passed,
                   response, called,
                   outcome, outer>>

\* The select receives from one of its channels and sleep returns.
wake(r, case) ==
    /\ pc' = [pc EXCEPT ![r] = returnOf(phaseOf(r))]
    /\ timer' = [timer EXCEPT ![r] = NoTimer]
    /\ outcome' = [outcome EXCEPT ![r][phaseOf(r)] = case]
    /\ UNCHANGED <<cfg, opts, built, req, cancelled, dur, waited, invoked,
                   passed, response, called, outer>>

\* "case <-time.After(d):"
TimerFires(r) ==
    /\ Waiting(r)
    /\ timerCase(r)
    /\ wake(r, "completed")

\* "case <-r.Context().Done():"
ContextDone(r) ==
    /\ Waiting(r)
    /\ doneCase(r)
    /\ wake(r, "cancelled")

\* isDone, on a context shared by the requests in flight.
isDoneAny(r) == \E s \in Requests : cancelled[s]

isDone(r) == cancelled[r]

\* callHandler without the isDone check after cfg.before.
callHandlerUnchecked(r) ==
    /\ pc[r] = "afterBefore"
    /\ pc' = [pc EXCEPT ![r] = "invoking"]
    /\ invoked' = [invoked EXCEPT ![r] = @ + 1]
    /\ passed' = [passed EXCEPT ![r] = req[r]]
    /\ UNCHANGED <<cfg, opts, built, req, cancelled, timer, dur, waited,
                   response, called,
                   outcome, outer>>

\* "if isDone(r.Context()) { return }; h(w, r)": h is entered.
callHandler(r) ==
    /\ pc[r] = "afterBefore"
    /\ IF isDone(r)
       THEN /\ pc' = [pc EXCEPT ![r] = "cancelledEarly"]
            /\ UNCHANGED <<invoked, passed>>
       ELSE /\ pc' = [pc EXCEPT ![r] = "invoking"]
            /\ invoked' = [invoked EXCEPT ![r] = @ + 1]
            /\ passed' = [passed EXCEPT ![r] = req[r]]
    /\ UNCHANGED <<cfg, opts, built, req, cancelled, timer, dur, waited,
                   response, called,
                   outcome, outer>>

\* The wrapped handler writes its output to w and returns.
HandlerReturns(r) ==
    /\ pc[r] = "invoking"
    /\ response' = [response EXCEPT ![r] = Append(@, HelloWorld)]
    /\ pc' = [pc EXCEPT ![r] = "afterHandler"]
    /\ UNCHANGED <<cfg, opts, built, req, cancelled, timer, dur, waited,
                   invoked, passed, called,
                   outcome, outer>>

\* after, calling the wrapped handler a second time before cfg.after.
afterCallingAgain(r) ==
    /\ pc[r] = "afterHandler"
    /\ IF isDone(r)
       THEN /\ pc' = [pc EXCEPT ![r] = "cancelledEarly"]
            /\ UNCHANGED <<timer, dur, called, invoked>>
       ELSE /\ sleep(r, "after")
            /\ invoked' = [invoked EXCEPT ![r] = @ + 1]
    /\ UNCHANGED <<cfg, opts, built, req, cancelled, waited, passed, response,
                   outcome, outer>>

\* after without the isDone check after h.
afterUnchecked(r) ==
    /\ pc[r] = "afterHandler"
    /\ sleep(r, "after")
    /\ UNCHANGED <<cfg, opts, built, req, cancelled, waited, invoked, passed,
                   response, outcome, outer>>

\* "if isDone(r.Context()) { return }; cfg.after(w, r)"
after(r) ==
    /\ pc[r] = "afterHandler"
    /\ IF isDone(r)
       THEN /\ pc' = [pc EXCEPT ![r] = "cancelledEarly"]
            /\ UNCHANGED <<timer, dur, called>>
       ELSE sleep(r, "after")
    /\ UNCHANGED <<cfg, opts, built, req, cancelled, waited, invoked, passed,
                   response,
                   outcome, outer>>

(***************************************************************************)
(* Delay(Delay(h, opts...), Fixed(before, after)): the delayed handler is  *)
(* itself the handler given to a second call of Delay.  The second closure *)
(* runs the same code with its own config (outer.cfg); the handler it      *)
(* calls is the first closure, entered at "start" with the same request.   *)
(***************************************************************************)
AgainValues == {0, 300 * Millisecond}

DelayAgain ==
    /\ built
    /\ ~outer.built
    /\ \A r \in Requests : pc[r] = "idle"
    /\ \E dBefore \in AgainValues, dAfter \in AgainValues :
         outer' = [outer EXCEPT
                     !.built = TRUE,
                     !.opts = <<[kind |-> "Fixed", before |-> dBefore,
                                 after |-> dAfter]>>,
                     !.cfg = FixedOption(DefaultConfig, dBefore, dAfter)]
    /\ UNCHANGED <<cfg, opts, built, reqVars>>

\* The transport hands a request to the outer delayed handler.
ArriveOuterFrom(r, inputs) ==
    /\ outer.built
    /\ outer.pc[r] = "idle"
    /\ \E in \in inputs : req' = [req EXCEPT ![r] = in]
    /\ outer' = [outer EXCEPT !.pc[r] = "start"]
    /\ UNCHANGED <<cfg, opts, built, pc, cancelled, timer, dur, waited, invoked,
                   passed, response, called, outcome>>

ArriveOuter(r) == ArriveOuterFrom(r, RequestInputs)

CancelOuter(r) ==
    /\ outer.pc[r] # "idle"
    /\ ~cancelled[r]
    /\ cancelled' = [cancelled EXCEPT ![r] = TRUE]
    /\ UNCHANGED <<cfg, opts, built, req, pc, timer, dur, waited, invoked,
                   passed, response, called, outcome, outer>>

\* config.sleep of the outer closure, up to its select.
sleepOuter(r, beforeOrAfter) ==
    LET cc == checkConditions(outer.cfg, req[r])
        d == resolved(outer.cfg, req[r], beforeOrAfter)
    IN  IF ~cc.ok
        THEN outer' = [outer EXCEPT !.pc[r] = returnOf(beforeOrAfter)]
        ELSE outer' = [outer EXCEPT !.pc[r] = waitOf(beforeOrAfter),
                                    !.timer[r] = d]

WaitingOuter(r) == outer.pc[r] \in {"beforeWait", "afterWait"}

beforeOuter(r) ==
    /\ outer.pc[r] = "start"
    /\ sleepOuter(r, "before")
    /\ UNCHANGED <<cfg, opts, built, reqVars>>

TickOuter(r) ==
    /\ WaitingOuter(r)
    /\ ~doneCase(r)
    /\ outer.timer[r] > 0
    /\ LET step == IF outer.timer[r] < Quantum THEN outer.timer[r] ELSE Quantum
       IN  outer' = [outer EXCEPT !.timer[r] = @ - step, !.waited[r] = @ + step]
    /\ UNCHANGED <<cfg, opts, built, reqVars>>

wakeOuter(r) ==
    /\ outer' = [outer EXCEPT
                    !.pc[r] = IF @ = "beforeWait" THEN returnOf("before")
                                                  ELSE returnOf("after"),
                    !.timer[r] = NoTimer]
    /\ UNCHANGED <<cfg, opts, built, reqVars>>

TimerFiresOuter(r) ==
    /\ WaitingOuter(r)
    /\ outer.timer[r] <= 0
    /\ wakeOuter(r)

ContextDoneOuter(r) ==
    /\ WaitingOuter(r)
    /\ doneCase(r)
    /\ wakeOuter(r)

\* "if isDone(r.Context()) { return }; h(w, r)", h being the delayed handler.
callDelayed(r) ==
    /\ outer.pc[r] = "afterBefore"
    /\ IF isDone(r)
       THEN /\ outer' = [outer EXCEPT !.pc[r] = "cancelledEarly"]
            /\ UNCHANGED pc
       ELSE /\ outer' = [outer EXCEPT !.pc[r] = "invoking"]
            /\ pc' = [pc EXCEPT ![r] = "start"]
    /\ UNCHANGED <<cfg, opts, built, req, cancelled, timer, dur, waited,
                   invoked, passed, response, called, outcome>>

\* The delayed handler returns to the outer closure.
DelayedReturns(r) ==
    /\ outer.pc[r] = "invoking"
    /\ pc[r] \in {"done", "cancelledEarly"}
    /\ outer' = [outer EXCEPT !.pc[r] = "afterHandler"]
    /\ UNCHANGED <<cfg, opts, built, reqVars>>

afterOuter(r) ==
    /\ outer.pc[r] = "afterHandler"
    /\ IF isDone(r)
       THEN outer' = [outer EXCEPT !.pc[r] = "cancelledEarly"]
       ELSE sleepOuter(r, "after")
    /\ UNCHANGED <<cfg, opts, built, reqVars>>

Next ==
    \/ Fixed \/ Header \/ Max \/ Condition \/ Delay
    \/ \E r \in Requests :
        \/ Arrive(r) \/ Cancel(r)
        \/ before(r) \/ Tick(r) \/ TimerFires(r) \/ ContextDone(r)
        \/ callHandler(r) \/ HandlerReturns(r) \/ after(r)

Spec == Init /\ [][Next]_vars

(***************************************************************************)
(* A sample of the inputs, for the specifications below that have more to  *)
(* explore per input (two layers of Delay, two requests, fairness).        *)
(***************************************************************************)
FewOptions ==
    { [kind |-> "Fixed", before |-> 300 * Millisecond, after |-> 700 * Millisecond],
      [kind |-> "Fixed", before |-> 0 - 100 * Millisecond, after |-> 0],
      [kind |-> "Header", prefix |-> "delay"],
      [kind |-> "Max", maxDuration |-> 500 * Millisecond],
      [kind |-> "Max", maxDuration |-> 0 - 100 * Millisecond],
      [kind |-> "Condition", predicate |-> "isAdmin"] }

FewRequests ==
    { [header |-> [n \in HeaderNames |->
                     CASE n = "delay-before" -> b
                       [] n = "delay-after" -> a
                       [] n = "user" -> u
                       [] n = "apikey" -> ValidKey]] :
        b \in {<<"3", "0", "0", "m", "s">>, <<"5">>},
        a \in {<<"0", ".", "7", "s">>, <<"-", "1", "s">>},
        u \in {Admin, Ted} }

Few == \A i \in 1..Len(opts) : opts[i] \in FewOptions

\* The options and the arrivals, on the sample.
FixedOfFew == Fixed /\ Few'
HeaderOfFew == Header /\ Few'
MaxOfFew == Max /\ Few'
ConditionOfFew == Condition /\ Few'
ArriveOfFew(r) == ArriveFrom(r, FewRequests)
ArriveOuterOfFew(r) == ArriveOuterFrom(r, FewRequests)

\* A step of the goroutine serving the request.
Serve(r) ==
    \/ before(r) \/ Tick(r) \/ TimerFires(r) \/ ContextDone(r)
    \/ callHandler(r) \/ HandlerReturns(r) \/ after(r)

\* Next, on the sample.
NextFew ==
    \/ FixedOfFew \/ HeaderOfFew \/ MaxOfFew \/ ConditionOfFew
    \/ Delay
    \/ \E r \in Requests :
        \/ ArriveOfFew(r) \/ Cancel(r)
        \/ before(r) \/ Tick(r) \/ TimerFires(r) \/ ContextDone(r)
        \/ callHandler(r) \/ HandlerReturns(r) \/ after(r)

\* One request, whose goroutine keeps running: the scheduler runs it, its
\* timers fire and the wrapped handler returns.  Every step of the goroutine
\* changes its position or the time it has waited.
FairSpec == Init /\ [][NextFew]_vars /\ WF_<<pc, waited>>(Serve(1))

\* Two requests served concurrently by the same delayed handler.
SpecTwo == InitWith({1, 2}) /\ [][NextFew]_vars

\* Delay(Delay(h, opts...), Fixed(before, after)) serving one request.
NextAgain ==
    \/ FixedOfFew \/ HeaderOfFew \/ MaxOfFew \/ ConditionOfFew
    \/ Delay \/ DelayAgain
    \/ \E r \in Requests :
        \/ ArriveOuterOfFew(r) \/ CancelOuter(r)
        \/ beforeOuter(r) \/ TickOuter(r) \/ TimerFiresOuter(r)
        \/ ContextDoneOuter(r)
        \/ callDelayed(r) \/ DelayedReturns(r) \/ afterOuter(r)
        \/ before(r) \/ Tick(r) \/ TimerFires(r) \/ ContextDone(r)
        \/ callHandler(r) \/ HandlerReturns(r) \/ after(r)

SpecAgain == Init /\ [][NextAgain]_vars

\* The transport cancels the request's context before the closure has run:
\* the delayed handler is entered with a context that is already done.
CancelAtEntry(r) ==
    /\ pc[r] = "start"
    /\ Cancel(r)

\* Requests that are cancelled, if at all, when the delayed handler is
\* entered.
NextCancelledAtEntry ==
    \/ Fixed \/ Header \/ Max \/ Condition \/ Delay
    \/ \E r \in Requests :
        \/ Arrive(r) \/ CancelAtEntry(r)
        \/ before(r) \/ Tick(r) \/ TimerFires(r) \/ ContextDone(r)
        \/ callHandler(r) \/ HandlerReturns(r) \/ after(r)

SpecCancelledAtEntry == Init /\ [][NextCancelledAtEntry]_vars

(***************************************************************************)
(* Properties.                                                             *)
(***************************************************************************)
Finished(r) == pc[r] \in {"done", "cancelledEarly"}

Min(a, b) == IF a < b THEN a ELSE b
Max0(a) == IF a < 0 THEN 0 ELSE a

\* C1: in every execution of the delayed handler, whatever the config, the
\* request and the moment of cancellation, the wrapped handler is invoked at
\* most once per request.
C1_InvokedAtMostOnce == \A r \in Requests : invoked[r] <= 1

\* The handler was invoked, the request was cancelled during the after-wait
\* and the delayed handler has returned.
C1_Witness ==
    \E r \in Requests :
        /\ invoked[r] = 1
        /\ cancelled[r]
        /\ pc[r] = "done"
        /\ dur[r]["after"] # NoDelay
        /\ waited[r]["after"] < dur[r]["after"][1]

CancelledInBeforeWait(r) == pc[r] = "beforeWait" /\ cancelled[r]

\* The request was cancelled no later than its before-wait and the wrapped
\* handler has not been invoked.
CancelledBeforeHandler(r) ==
    /\ cancelled[r]
    /\ pc[r] \in {"beforeWait", "afterBefore", "cancelledEarly"}
    /\ invoked[r] = 0

\* C2: if the request's context is cancelled while the request is in the
\* before-wait, the before-wait ends (the Done case of its select is ready
\* and no more time elapses in it), and from then on, for ever, the wrapped
\* handler is not invoked for that request, no after-wait is performed, and
\* nothing is written to the response: the delayed handler can only return
\* (CancelledEarly).
C2_CancelledInBeforeWait ==
    /\ [](\A r \in Requests :
            /\ CancelledInBeforeWait(r) =>
                 /\ CancelledBeforeHandler(r)
                 /\ ENABLED ContextDone(r)
                 /\ ~ENABLED Tick(r)
            /\ CancelledBeforeHandler(r) =>
                 /\ dur[r]["after"] = NoDelay
                 /\ waited[r]["after"] = 0
                 /\ response[r] = << >>)
    /\ [][\A r \in Requests :
            /\ CancelledInBeforeWait(r) =>
                 /\ waited'[r] = waited[r]
                 /\ pc'[r] \in {"beforeWait", "afterBefore"}
            /\ CancelledBeforeHandler(r) => CancelledBeforeHandler(r)']_vars

\* The request was cancelled in the middle of a before-wait and the delayed
\* handler has returned without invoking the wrapped handler.
C2_Witness ==
    \E r \in Requests :
        /\ pc[r] = "cancelledEarly"
        /\ invoked[r] = 0
        /\ dur[r]["before"] # NoDelay
        /\ waited[r]["before"] > 0
        /\ waited[r]["before"] < dur[r]["before"][1]

NoMaxOption == \A i \in 1..Len(opts) : opts[i].kind # "Max"

TotalWaited(r) == waited[r]["before"] + waited[r]["after"]

HandlerReturned(r) == invoked[r] > 0 /\ pc[r] # "invoking"

\* C4: the delayed handler only alters timing.  The wrapped handler, when
\* it runs, is given the request the delayed handler received; the response
\* is at all times exactly what the wrapped handler has written; and no step
\* of the delayed handler changes the request's headers or its cancellation
\* (only the transport cancels) or writes to the response (only the wrapped
\* handler does).
C4_OnlyTiming ==
    /\ [](\A r \in Requests :
            /\ invoked[r] > 0 => passed[r] = req[r]
            /\ response[r] = IF HandlerReturned(r) THEN <<HelloWorld>>
                             ELSE << >>)
    /\ [][\A r \in Requests :
            /\ pc[r] # "idle" => req'[r] = req[r]
            /\ cancelled'[r] # cancelled[r] => Cancel(r)
            /\ response'[r] # response[r] => HandlerReturns(r)]_vars

\* A request has been delayed in both phases and answered.
C4_Witness ==
    \E r \in Requests :
        /\ pc[r] = "done"
        /\ waited[r]["before"] > 0
        /\ waited[r]["after"] > 0
        /\ passed[r] = req[r]
        /\ response[r] = <<HelloWorld>>

SomeConditionUnmet(r) ==
    /\ pc[r] # "idle"
    /\ \E i \in 1..Len(cfg.conditions) : ~Eval(cfg.conditions[i], req[r])

\* C5: when at least one of the configured predicates is false for the
\* request, no delay is applied in either phase, in fixed mode and in header
\* mode alike (no timer is started, the request never blocks in a wait and no
\* time is waited), and the wrapped handler still executes normally: unless
\* the request is cancelled, the delayed handler finishes in Done with the
\* wrapped handler invoked exactly once and its output written.
C5_UnmetConditionNoDelay ==
    \A r \in Requests :
        SomeConditionUnmet(r) =>
            /\ \A p \in Phases : dur[r][p] = NoDelay /\ waited[r][p] = 0
            /\ ~Waiting(r)
            /\ pc[r] = "cancelledEarly" => cancelled[r]
            /\ pc[r] = "done" =>
                 /\ invoked[r] = 1
                 /\ response[r] = <<HelloWorld>>

\* Two conditions, the first met and the second not, with a fixed delay
\* configured: the request is answered without having waited.
C5_Witness ==
    \E r \in Requests :
        /\ Len(cfg.conditions) = 2
        /\ Eval(cfg.conditions[1], req[r])
        /\ ~Eval(cfg.conditions[2], req[r])
        /\ cfg.headerPrefix = ""
        /\ cfg.fixedDurationBefore > 0
        /\ pc[r] = "done"
        /\ invoked[r] = 1
        /\ TotalWaited(r) = 0

\* The duration the client asks for in the header of phase p: what the text
\* of header "<prefix>-<p>" parses to, 0 when the header is absent or is not
\* a duration.
Unparsable(r, prefix, p) ==
    LET value == req[r].header[prefix \o "-" \o p]
    IN  value = Empty \/ ~ParseDuration(value).ok

HeaderDuration(r, prefix, p) ==
    IF Unparsable(r, prefix, p) THEN 0
    ELSE ParseDuration(req[r].header[prefix \o "-" \o p]).d

HeaderMode == cfg.headerPrefix = "delay"

ConditionsMet(r) ==
    \A i \in 1..Len(cfg.conditions) : Eval(cfg.conditions[i], req[r])

\* The before-wait, respectively the after-wait, of the request is over.
BeforeOver(r) ==
    pc[r] \in {"afterBefore", "invoking", "afterHandler", "afterWait", "done"}
AfterOver(r) == pc[r] = "done"

\* C6 as stated: in header mode, with all conditions met and no
\* cancellation, the before-wait lasts min(value of "<prefix>-before", max)
\* and the after-wait lasts min(value of "<prefix>-after", max).
C6_HeaderWaitsMinOfValueAndMax ==
    \A r \in Requests :
        (HeaderMode /\ pc[r] # "idle" /\ ConditionsMet(r) /\ ~cancelled[r]) =>
            /\ BeforeOver(r) =>
                 waited[r]["before"] =
                     Min(HeaderDuration(r, "delay", "before"), cfg.max)
            /\ AfterOver(r) =>
                 waited[r]["after"] =
                     Min(HeaderDuration(r, "delay", "after"), cfg.max)

\* C6, amended: in header mode, with all conditions met and no
\* cancellation, the before-wait lasts max(0, min(value of
\* "<prefix>-before", max)) and the after-wait lasts max(0, min(value of
\* "<prefix>-after", max)), each phase resolved from its own header
\* independently of the other, so the added latency is the sum of the two.
C6_HeaderWaitsClampedValue ==
    \A r \in Requests :
        (HeaderMode /\ pc[r] # "idle" /\ ConditionsMet(r) /\ ~cancelled[r]) =>
            /\ BeforeOver(r) =>
                 waited[r]["before"] =
                     Max0(Min(HeaderDuration(r, "delay", "before"), cfg.max))
            /\ AfterOver(r) =>
                 /\ waited[r]["after"] =
                      Max0(Min(HeaderDuration(r, "delay", "after"), cfg.max))
                 /\ TotalWaited(r) =
                      Max0(Min(HeaderDuration(r, "delay", "before"), cfg.max))
                      + Max0(Min(HeaderDuration(r, "delay", "after"), cfg.max))

\* Headers "delay-before: 300ms" and "delay-after: 0.7s" under the default
\* max: the request has waited 300ms and 700ms.
C6_Witness ==
    \E r \in Requests :
        /\ HeaderMode
        /\ cfg.max = 20 * Second
        /\ pc[r] = "done"
        /\ ~cancelled[r]
        /\ req[r].header["delay-before"] = <<"3", "0", "0", "m", "s">>
        /\ req[r].header["delay-after"] = <<"0", ".", "7", "s">>
        /\ waited[r]["before"] = 300 * Millisecond
        /\ waited[r]["after"] = 700 * Millisecond

OtherPhase(p) == IF p = "before" THEN "after" ELSE "before"

FixedWithinMax ==
    /\ cfg.headerPrefix = ""
    /\ 0 <= cfg.fixedDurationBefore /\ cfg.fixedDurationBefore <= cfg.max
    /\ 0 <= cfg.fixedDurationAfter /\ cfg.fixedDurationAfter <= cfg.max

\* C8: with Fixed(b, a), no header mode, all conditions met and b, a within
\* [0, max], a request that is not cancelled has waited exactly b when the
\* wrapped handler is invoked, waits nothing more until the handler has
\* returned, and has waited exactly a after it when the delayed handler
\* returns: the added latency is b + a.
C8_FixedWaits ==
    \A r \in Requests :
        (FixedWithinMax /\ pc[r] # "idle" /\ ConditionsMet(r)
           /\ ~cancelled[r]) =>
            /\ invoked[r] > 0 => waited[r]["before"] = cfg.fixedDurationBefore
            /\ BeforeOver(r) => waited[r]["before"] = cfg.fixedDurationBefore
            /\ pc[r] \notin {"afterWait", "done"} => waited[r]["after"] = 0
            /\ AfterOver(r) =>
                 /\ invoked[r] = 1
                 /\ waited[r]["after"] = cfg.fixedDurationAfter
                 /\ TotalWaited(r) =
                      cfg.fixedDurationBefore + cfg.fixedDurationAfter

\* Fixed(300ms, 700ms): the request has waited 300ms before the handler and
\* 700ms after it.
C8_Witness ==
    \E r \in Requests :
        /\ FixedWithinMax
        /\ cfg.fixedDurationBefore = 300 * Millisecond
        /\ cfg.fixedDurationAfter = 700 * Millisecond
        /\ pc[r] = "done"
        /\ ~cancelled[r]
        /\ invoked[r] = 1
        /\ waited[r]["before"] = 300 * Millisecond
        /\ waited[r]["after"] = 700 * Millisecond

Defaults ==
    /\ cfg.fixedDurationBefore = 1 * Second
    /\ cfg.fixedDurationAfter = 0
    /\ cfg.max = 20 * Second
    /\ cfg.headerPrefix = ""
    /\ cfg.conditions = << >>

\* C9: Delay called with no options builds the config before = 1s,
\* after = 0, max = 20s, no header prefix, no conditions; and under that
\* config every request that is not cancelled waits 1s before the wrapped
\* handler is invoked and nothing after it, and the response is the
\* handler's output.
C9_NoOptions ==
    /\ (~built /\ opts = << >>) => Defaults
    /\ \A r \in Requests :
        (built /\ Defaults /\ ~cancelled[r]) =>
            /\ invoked[r] > 0 => waited[r]["before"] = 1 * Second
            /\ waited[r]["after"] = 0
            /\ pc[r] # "cancelledEarly"
            /\ pc[r] = "done" =>
                 /\ invoked[r] = 1
                 /\ TotalWaited(r) = 1 * Second
                 /\ response[r] = <<HelloWorld>>

\* Under the default config a request has been answered after 1s.
C9_Witness ==
    \E r \in Requests :
        /\ built
        /\ Defaults
        /\ pc[r] = "done"
        /\ ~cancelled[r]
        /\ waited[r] = [before |-> 1 * Second, after |-> 0]
        /\ response[r] = <<HelloWorld>>

HeaderOptions == {i \in 1..Len(opts) : opts[i].kind = "Header"}

\* The prefix of the last Header option of the list.
LastHeaderPrefix ==
    opts[CHOOSE i \in HeaderOptions : \A j \in HeaderOptions : j <= i].prefix

\* Every request's durations come from its headers "<prefix>-before" and
\* "<prefix>-after" alone, not from the fixed durations.
ResolvedFromHeaders(prefix) ==
    \A in \in RequestInputs : \A p \in Phases :
        LET value == Get(in.header, prefix \o "-" \o p)
            d == IF value = Empty \/ ~ParseDuration(value).ok THEN 0
                 ELSE ParseDuration(value).d
        IN  resolved(cfg, in, p) = Min(d, cfg.max)

\* In header mode, what a request is delayed by is what its headers resolve
\* to; without the headers it is not delayed.
DelayedByHeaders ==
    \A r \in Requests : \A p \in Phases :
        (HeaderMode /\ pc[r] # "idle") =>
            /\ dur[r][p] # NoDelay =>
                 dur[r][p][1] = Min(HeaderDuration(r, "delay", p), cfg.max)
            /\ req[r].header["delay-" \o p] = Empty => waited[r][p] = 0

OptionsOfKind(kind) == {i \in 1..Len(opts) : opts[i].kind = kind}

\* The last option of the kind in the list given to Delay; there is one.
LastOption(kind) ==
    opts[CHOOSE i \in OptionsOfKind(kind) :
            \A j \in OptionsOfKind(kind) : j <= i]

\* The config built from the last Fixed, the last Header and the last Max of
\* the list only.
ConfigOfLastOptions ==
    LET c1 == IF OptionsOfKind("Fixed") = {} THEN DefaultConfig
              ELSE FixedOption(DefaultConfig, LastOption("Fixed").before,
                               LastOption("Fixed").after)
        c2 == IF OptionsOfKind("Header") = {} THEN c1
              ELSE HeaderOption(c1, LastOption("Header").prefix)
    IN  IF OptionsOfKind("Max") = {} THEN c2
        ELSE MaxOption(c2, LastOption("Max").maxDuration)

\* The fields of the config an option of the kind sets.
OwnedBy(kind) ==
    CASE kind = "Fixed" -> {"fixedDurationBefore", "fixedDurationAfter"}
      [] kind = "Header" -> {"headerPrefix"}
      [] kind = "Max" -> {"max"}
      [] kind = "Condition" -> {"conditions"}

\* C11: while Delay applies its options, in the order of the list, the
\* durations, the header prefix and the limit of the config are those of the
\* config built from the last Fixed, the last Header and the last Max alone;
\* and applying an option changes no field but the ones it owns.
C11_LastOptionWins ==
    /\ [](~built =>
            \A f \in {"fixedDurationBefore", "fixedDurationAfter",
                       "headerPrefix", "max"} :
                cfg[f] = ConfigOfLastOptions[f])
    /\ [][Len(opts') = Len(opts) + 1 =>
            \A f \in DOMAIN cfg \ OwnedBy(opts'[Len(opts')].kind) :
                cfg'[f] = cfg[f]]_vars

\* Fixed was given twice with different durations, around a Max and before
\* Delay returned; the config has the durations of the second.
C11_Witness ==
    /\ ~built
    /\ Len(opts) = 3
    /\ opts[1].kind = "Fixed" /\ opts[2].kind = "Max" /\ opts[3].kind = "Fixed"
    /\ opts[1].before # opts[3].before
    /\ opts[1].after # opts[3].after
    /\ cfg.fixedDurationBefore = opts[3].before
    /\ cfg.fixedDurationAfter = opts[3].after
    /\ cfg.max = opts[2].maxDuration

\* The after-phase of the request has not begun: no duration was resolved for
\* it, no select ran and no time was waited.
NoAfterPhase(r) ==
    /\ dur[r]["after"] = NoDelay
    /\ outcome[r]["after"] = NoOutcome
    /\ waited[r]["after"] = 0

\* C12: when the wrapped handler has returned and the request is cancelled
\* (the cancellation fired while the handler ran), the next step of the
\* delayed handler is to return early, and the after-phase never begins,
\* whatever its duration would be.
C12_CancelledDuringHandler ==
    /\ [](\A r \in Requests :
            (invoked[r] > 0 /\ cancelled[r]
                /\ pc[r] \in {"afterHandler", "cancelledEarly"})
            => NoAfterPhase(r))
    /\ [][\A r \in Requests :
            (pc[r] = "afterHandler" /\ cancelled[r] /\ pc'[r] # pc[r])
            => (pc'[r] = "cancelledEarly" /\ NoAfterPhase(r)')]_vars
    /\ [][\A r \in Requests :
            (pc[r] = "cancelledEarly" /\ invoked[r] > 0)
            => (pc'[r] = "cancelledEarly" /\ NoAfterPhase(r)')]_vars

\* The request was cancelled while its handler ran and the delayed handler
\* returned early, although an after-wait of a positive duration was due.
C12_Witness ==
    \E r \in Requests :
        /\ pc[r] = "cancelledEarly"
        /\ invoked[r] = 1
        /\ response[r] = <<HelloWorld>>
        /\ checkConditions(cfg, req[r]).ok
        /\ resolved(cfg, req[r], "after") > 0
        /\ NoAfterPhase(r)

\* C13 as stated: in every reachable state, for every config the options
\* accept, the duration resolved for a phase lies in [0, max].
C13_ResolvedWithinZeroAndMax ==
    \A r \in Requests : \A p \in Phases :
        dur[r][p] # NoDelay =>
            (0 <= dur[r][p][1] /\ dur[r][p][1] <= cfg.max)

\* C13, amended: the duration resolved for a phase is the smaller of the
\* requested duration and max, hence at most max, and it lies in [0, max]
\* when neither the requested duration nor max is negative; it is negative
\* when one of them is (there is no floor at 0), and then no time is waited:
\* the time waited in a phase lies in [0, max(resolved, 0)].
C13_ResolvedAtMostMax ==
    \A r \in Requests : \A p \in Phases :
        dur[r][p] # NoDelay =>
            LET d == dur[r][p][1]
                asked == requested(cfg, req[r], p)
            IN  /\ d = Min(asked, cfg.max)
                /\ d <= cfg.max
                /\ (asked >= 0 /\ cfg.max >= 0) => d \in 0..cfg.max
                /\ (asked < 0 \/ cfg.max < 0) => d < 0
                /\ waited[r][p] \in 0..Max0(d)

\* Under a max that is not negative, a request was served whose
\* before-duration resolved to a negative value and whose after-duration
\* resolved to a positive one: nothing was waited before the handler, the
\* whole after-duration after it.
C13_Witness ==
    \E r \in Requests :
        /\ pc[r] = "done"
        /\ ~cancelled[r]
        /\ cfg.max >= 0
        /\ dur[r]["before"] # NoDelay /\ dur[r]["after"] # NoDelay
        /\ dur[r]["before"][1] < 0
        /\ waited[r]["before"] = 0
        /\ dur[r]["after"][1] > 0
        /\ waited[r]["after"] = dur[r]["after"][1]

\* C14: Max takes a negative duration as it is, and under a negative max
\* no request is delayed, in fixed mode as in header mode: every duration
\* resolved is negative, its timer has elapsed as soon as the select is
\* reached, no time is waited in either phase, and the wrapped handler is
\* invoked, once, for every request that is not cancelled.
C14_NegativeMaxNoDelay ==
    /\ (~built /\ OptionsOfKind("Max") # {}
            /\ LastOption("Max").maxDuration < 0)
        => cfg.max = LastOption("Max").maxDuration
    /\ cfg.max < 0 =>
        \A r \in Requests :
            /\ \A p \in Phases :
                /\ waited[r][p] = 0
                /\ dur[r][p] # NoDelay => dur[r][p][1] < 0
            /\ Waiting(r) => timerCase(r)
            /\ pc[r] = "done" => invoked[r] = 1
            /\ (Finished(r) /\ ~cancelled[r]) =>
                 (pc[r] = "done" /\ response[r] = <<HelloWorld>>)

\* Under a negative max and in header mode, a request asking for
\* positive delays in both phases was served without waiting.
C14_Witness ==
    \E r \in Requests :
        /\ cfg.max < 0
        /\ HeaderMode
        /\ pc[r] = "done"
        /\ ~cancelled[r]
        /\ invoked[r] = 1
        /\ readHeaderDuration(req[r], "delay-before").d > 0
        /\ readHeaderDuration(req[r], "delay-after").d > 0
        /\ dur[r]["before"] # NoDelay /\ dur[r]["after"] # NoDelay
        /\ TotalWaited(r) = 0

\* The delayed handler was given to Delay again with Fixed(0, 0).
WrappedWithZero ==
    /\ outer.built
    /\ outer.opts = <<[kind |-> "Fixed", before |-> 0, after |-> 0]>>

OuterFinished(r) == outer.pc[r] \in {"done", "cancelledEarly"}

\* What the delayed handler Delay(h, opts...) sees of the request: nothing
\* before it is entered.
Entered(r) == pc[r] # "idle"
SeenRequest(r) == IF Entered(r) THEN req[r] ELSE NoRequest
SeenCancelled(r) == Entered(r) /\ cancelled[r]

\* A step of Delay(h, opts...) serving the request on its own: the request
\* arrives, not cancelled, or is cancelled, or its goroutine takes a step.
SingleStep(r) ==
    \/ /\ ~Entered(r) /\ Entered(r)'
       /\ pc'[r] = "start"
       /\ SeenRequest(r)' \in RequestInputs
       /\ ~SeenCancelled(r)'
       /\ UNCHANGED <<cfg, timer, dur, waited, invoked, passed, response,
                      called, outcome>>
    \/ /\ Entered(r)
       /\ ~cancelled[r] /\ cancelled'[r]
       /\ UNCHANGED <<cfg, req, pc, timer, dur, waited, invoked, passed,
                      response, called, outcome>>
    \/ before(r) \/ Tick(r) \/ TimerFires(r) \/ ContextDone(r)
    \/ callHandler(r) \/ HandlerReturns(r) \/ after(r)

\* C15: with Delay(Delay(h, opts...), Fixed(0, 0)), whatever opts, the
\* request and the moment of cancellation: the outer closure waits no
\* time; every step that changes what Delay(h, opts...) and h see or do (the
\* request, its cancellation, the durations, the time waited, the calls of
\* h, the response) is a step of Delay(h, opts...) serving the request on its
\* own; and the outer closure returns without entering Delay(h, opts...)
\* only for a cancelled request, with h not invoked, nothing waited and
\* nothing written, as Delay(h, opts...) does for a request cancelled on
\* arrival.
C15_WrappingWithZeroIsIdle ==
    /\ [](WrappedWithZero =>
            \A r \in Requests :
                /\ outer.waited[r] = 0
                /\ invoked[r] <= 1
                /\ (OuterFinished(r) /\ Entered(r)) => Finished(r)
                /\ (OuterFinished(r) /\ ~Entered(r)) =>
                     /\ cancelled[r]
                     /\ invoked[r] = 0
                     /\ TotalWaited(r) = 0
                     /\ response[r] = << >>)
    /\ [][WrappedWithZero =>
            \A r \in Requests :
                \/ SingleStep(r)
                \/ UNCHANGED <<cfg, pc, timer, dur, waited, invoked, passed,
                               response, called, outcome, SeenRequest(r),
                               SeenCancelled(r)>>]_vars

\* Behind Fixed(0, 0) a request was served to the end: it waited before and
\* after the handler what Delay(h, opts...) makes it wait, and nothing more.
C15_Witness ==
    \E r \in Requests :
        /\ WrappedWithZero
        /\ outer.pc[r] = "done"
        /\ outer.waited[r] = 0
        /\ pc[r] = "done"
        /\ invoked[r] = 1
        /\ response[r] = <<HelloWorld>>
        /\ waited[r]["before"] = 300 * Millisecond
        /\ waited[r]["after"] = 500 * Millisecond

\* The before-wait ended by its timer, which had elapsed in full before any
\* cancellation (time stops passing for a cancelled request).
BeforeWaitCompleted(r) ==
    /\ outcome[r]["before"] = "completed"
    /\ dur[r]["before"] # NoDelay
    /\ waited[r]["before"] = Max0(dur[r]["before"][1])
    /\ dur[r]["before"][1] > 0

\* C16 as stated: once the before-wait has ended by its timer, elapsed
\* before the cancellation fired, and the delayed handler has moved on, the
\* wrapped handler has been called: the request has not returned early
\* without it.
C16_CompletedWaitInvokes ==
    \A r \in Requests :
        (BeforeWaitCompleted(r) /\ pc[r] # "afterBefore")
        => (invoked[r] = 1 /\ pc[r] # "cancelledEarly")

\* C16, amended: what decides is not the outcome of the before-wait but
\* the test of the context made after it.  When cfg.before has returned, the
\* wrapped handler is called if the request is not cancelled at that test,
\* and the delayed handler returns early without calling it if it is; so a
\* before-wait ended by the cancellation never leads to the handler, and a
\* before-wait ended by its timer leads to it unless the request is
\* cancelled between the end of the wait and the test.
C16_TestAfterWaitDecides ==
    /\ [](\A r \in Requests :
            /\ outcome[r]["before"] = "cancelled" =>
                 (invoked[r] = 0 /\ pc[r] \in {"afterBefore", "cancelledEarly"})
            /\ (outcome[r]["before"] = "completed" /\ pc[r] # "afterBefore") =>
                 (invoked[r] = 1 \/ (pc[r] = "cancelledEarly" /\ cancelled[r]))
            /\ (pc[r] = "cancelledEarly" /\ invoked[r] = 0) => cancelled[r])
    /\ [][\A r \in Requests :
            (pc[r] = "afterBefore" /\ pc'[r] # pc[r]) =>
                IF cancelled[r]
                THEN pc'[r] = "cancelledEarly" /\ invoked'[r] = invoked[r]
                ELSE pc'[r] = "invoking" /\ invoked'[r] = invoked[r] + 1]_vars

\* The timer of the before-wait elapsed in full and ended the wait, the
\* request was cancelled after that, and the delayed handler returned early
\* without calling the wrapped handler.
C16_Witness ==
    \E r \in Requests :
        /\ BeforeWaitCompleted(r)
        /\ cancelled[r]
        /\ pc[r] = "cancelledEarly"
        /\ invoked[r] = 0
        /\ response[r] = << >>

\* The select of a wait is left as soon as the timer has elapsed or the
\* request is cancelled, and not before: time passes only while neither has
\* happened.
SelectIsRace(r) ==
    Waiting(r) =>
        /\ cancelled[r] => (ENABLED ContextDone(r) /\ ~ENABLED Tick(r))
        /\ timer[r] <= 0 => (ENABLED TimerFires(r) /\ ~ENABLED Tick(r))
        /\ (~cancelled[r] /\ timer[r] > 0) =>
             /\ ENABLED Tick(r)
             /\ ~ENABLED TimerFires(r)
             /\ ~ENABLED ContextDone(r)

\* C17 as stated, for the states: each wait is a race between its timer and
\* the cancellation of the request, and the time it has lasted is at most
\* the duration resolved for it.
C17_RaceWithinResolved ==
    \A r \in Requests :
        /\ SelectIsRace(r)
        /\ \A p \in Phases :
             IF dur[r][p] = NoDelay THEN waited[r][p] = 0
             ELSE waited[r][p] <= dur[r][p][1]

\* C17, amended: each wait is a race between its timer and the cancellation
\* of the request; the time it has lasted is at most the duration resolved
\* for it, or zero when that duration is negative; and from the moment the
\* request is cancelled, so once a wait has been ended by the cancellation,
\* no time is waited for the request any more, in either phase.
C17_RaceWithinResolvedOrZero ==
    /\ [](\A r \in Requests :
            /\ SelectIsRace(r)
            /\ \A p \in Phases :
                 IF dur[r][p] = NoDelay THEN waited[r][p] = 0
                 ELSE waited[r][p] <= Max0(dur[r][p][1])
            /\ outcome[r]["before"] = "cancelled" => NoAfterPhase(r))
    /\ [][\A r \in Requests :
            (cancelled[r] \/ \E p \in Phases : outcome[r][p] = "cancelled")
            => waited'[r] = waited[r]]_vars

\* After a before-wait that lasted its whole duration, the after-wait was
\* cut short by the cancellation with part of its duration left, and the
\* delayed handler has returned.
C17_Witness ==
    \E r \in Requests :
        /\ pc[r] = "done"
        /\ outcome[r]["before"] = "completed"
        /\ waited[r]["before"] > 0
        /\ outcome[r]["after"] = "cancelled"
        /\ waited[r]["after"] > 0
        /\ waited[r]["after"] < dur[r]["after"][1]

\* The order of the positions of the delayed handler.
PhaseOrder ==
    { <<"idle", "start">>,
      <<"start", "beforeWait">>, <<"start", "afterBefore">>,
      <<"beforeWait", "afterBefore">>,
      <<"afterBefore", "invoking">>, <<"afterBefore", "cancelledEarly">>,
      <<"invoking", "afterHandler">>,
      <<"afterHandler", "afterWait">>, <<"afterHandler", "done">>,
      <<"afterHandler", "cancelledEarly">>,
      <<"afterWait", "done">> }

\* C18: within one request the wrapped handler is invoked only once the
\* before-phase is over, the after-phase begins only once the handler has
\* returned, hence never for a request whose handler was not invoked, and
\* once the delayed handler has returned (done or cancelledEarly) nothing
\* follows: no wait, no call of the handler, no output.
C18_PhasesInOrder ==
    /\ [](\A r \in Requests :
            /\ invoked[r] > 0 =>
                 /\ pc[r] \notin {"idle", "start", "beforeWait", "afterBefore"}
                 /\ dur[r]["before"] # NoDelay => outcome[r]["before"] # NoOutcome
            /\ (pc[r] = "afterWait" \/ ~NoAfterPhase(r)
                    \/ called[r]["after"] # << >>) =>
                 /\ HandlerReturned(r)
                 /\ response[r] = <<HelloWorld>>
            /\ invoked[r] = 0 => (NoAfterPhase(r) /\ pc[r] # "done")
            /\ Finished(r) => ~Waiting(r) /\ timer[r] = NoTimer)
    /\ [][\A r \in Requests :
            /\ pc'[r] # pc[r] => <<pc[r], pc'[r]>> \in PhaseOrder
            /\ waited'[r]["before"] # waited[r]["before"] => pc[r] = "beforeWait"
            /\ waited'[r]["after"] # waited[r]["after"] => pc[r] = "afterWait"
            /\ invoked'[r] # invoked[r] => pc[r] = "afterBefore"
            /\ Finished(r) =>
                 UNCHANGED <<pc[r], timer[r], dur[r], waited[r], invoked[r],
                             response[r], outcome[r]>>]_vars

\* A request went through every phase: a before-wait ended by its timer,
\* the handler, an after-wait ended by its timer.
C18_Witness ==
    \E r \in Requests :
        /\ pc[r] = "done"
        /\ ~cancelled[r]
        /\ outcome[r]["before"] = "completed" /\ waited[r]["before"] > 0
        /\ invoked[r] = 1
        /\ outcome[r]["after"] = "completed" /\ waited[r]["after"] > 0

Positions ==
    {"idle", "start", "beforeWait", "afterBefore", "invoking", "afterHandler",
     "afterWait", "done", "cancelledEarly"}

\* C19: every request the delayed handler is entered with eventually
\* returns (done or cancelledEarly), whatever the config, the headers and
\* the moment of cancellation, given that its goroutine keeps running; until
\* then its goroutine always has a step to take, and it is never anywhere
\* but at one of the positions of the delayed handler: a header that does
\* not parse or a negative duration leads to no other state.
C19_Terminates ==
    /\ [](\A r \in Requests :
            /\ pc[r] \in Positions
            /\ (Entered(r) /\ ~Finished(r)) => ENABLED Serve(r)
            /\ Finished(r) => ~ENABLED Serve(r))
    /\ \A r \in {1} : [](Entered(r) => <>Finished(r))

\* A request with a header that does not parse, under a negative max and
\* in header mode, was cancelled and the delayed handler has returned.
C19_Witness ==
    \E r \in Requests :
        /\ Finished(r)
        /\ HeaderMode
        /\ cfg.max < 0
        /\ ~ParseDuration(req[r].header["delay-before"]).ok
        /\ cancelled[r]

\* All that the model keeps of one request.
StateOf(r) ==
    <<req[r], pc[r], cancelled[r], timer[r], dur[r], waited[r], invoked[r],
      passed[r], response[r], called[r], outcome[r]>>

\* The time the request waits in the phase when it is never cancelled: a
\* function of the config and of the request alone.
WaitDue(r, p) ==
    IF checkConditions(cfg, req[r]).ok
    THEN Max0(resolved(cfg, req[r], p))
    ELSE 0

\* C20: with two requests in flight in the same delayed handler, a request
\* that has not returned always has a step to take, whatever its sibling is
\* doing, and a new request can always arrive; a step of one request, its
\* cancellation included, changes nothing of the other; whether the
\* handler of a request is invoked depends on its own cancellation only;
\* and a request that is not cancelled never returns early and has waited,
\* when it is done, what its own headers and the config ask for, whether
\* or not its sibling was cancelled.
C20_RequestsIndependent ==
    /\ [](\A r \in Requests :
            /\ (Entered(r) /\ ~Finished(r)) => ENABLED Serve(r)
            /\ (built /\ ~Entered(r)) => ENABLED ArriveOfFew(r)
            /\ ~cancelled[r] =>
                 /\ pc[r] # "cancelledEarly"
                 /\ pc[r] \in {"invoking", "afterHandler", "afterWait", "done"}
                      => (invoked[r] = 1 /\ waited[r]["before"] = WaitDue(r, "before"))
                 /\ pc[r] = "done" => waited[r]["after"] = WaitDue(r, "after"))
    /\ [][\A r \in Requests :
            /\ (ArriveOfFew(r) \/ Cancel(r) \/ Serve(r)) =>
                 \A s \in Requests \ {r} : StateOf(s)' = StateOf(s)
            /\ (pc[r] = "afterBefore" /\ pc'[r] # pc[r]) =>
                 (pc'[r] = "invoking" <=> ~cancelled[r])]_vars

\* One request, cancelled, is still blocked in its before-wait with most of
\* its duration left; in the meantime its sibling, not cancelled, has gone
\* through both waits and the handler.
C20_Witness ==
    \E r \in Requests : \E s \in Requests \ {r} :
        /\ pc[r] = "beforeWait" /\ cancelled[r]
        /\ waited[r]["before"] < dur[r]["before"][1]
        /\ pc[s] = "done" /\ ~cancelled[s]
        /\ invoked[s] = 1
        /\ waited[s]["before"] > 0
        /\ waited[s]["after"] > 0

\* The sleep of phase p has been called for the request.
Ran(r, p) ==
    IF p = "before" THEN pc[r] \notin {"idle", "start"}
    ELSE pc[r] \in {"afterWait", "done"}

\* Phase p of the request is delayed (a duration was resolved and its timer
\* started), respectively gated off by the conditions.
Delayed(r, p) == dur[r][p] # NoDelay
GatedOff(r, p) == Ran(r, p) /\ dur[r][p] = NoDelay

\* C21 as stated: the conditions are evaluated once per request (the
\* predicates are not called in both phases of one request), and for no
\* request is one phase delayed while the other is gated off.
C21_EvaluatedOncePerRequest ==
    \A r \in Requests :
        /\ called[r]["before"] = << >> \/ called[r]["after"] = << >>
        /\ \A p \in Phases : ~(Delayed(r, p) /\ GatedOff(r, OtherPhase(p)))

\* C21, amended: the conditions are evaluated once per phase, on entering
\* it, hence twice for a request that reaches its after-phase, each time
\* against the same request; the predicates being functions of the request,
\* the two evaluations call the same predicates with the same result, and
\* for no request is one phase delayed while the other is gated off.
C21_EvaluatedOncePerPhase ==
    /\ [](\A r \in Requests : \A p \in Phases :
            /\ ~Ran(r, p) => called[r][p] = << >>
            /\ (Ran(r, p) /\ cfg.conditions # << >>) => called[r][p] # << >>
            /\ Ran(r, p) => (GatedOff(r, p) <=> SomeConditionUnmet(r))
            /\ (Ran(r, p) /\ Ran(r, OtherPhase(p))) =>
                 called[r][p] = called[r][OtherPhase(p)]
            /\ ~(Delayed(r, p) /\ GatedOff(r, OtherPhase(p))))
    /\ [][\A r \in Requests : \A p \in Phases :
            called'[r][p] # called[r][p] => (~Ran(r, p) /\ Ran(r, p)')]_vars

\* A request that meets the two conditions configured has been delayed in
\* both phases, the two predicates having been called in each.
C21_Witness ==
    \E r \in Requests :
        /\ pc[r] = "done"
        /\ Len(cfg.conditions) = 2
        /\ called[r]["before"] = cfg.conditions
        /\ called[r]["after"] = cfg.conditions
        /\ waited[r]["before"] > 0
        /\ waited[r]["after"] > 0

\* The predicates passed to Condition among the options, in the order passed.
ConditionOptions == SelectSeq(opts, LAMBDA opt : opt.kind = "Condition")
PredicatesPassed ==
    [i \in 1..Len(ConditionOptions) |-> ConditionOptions[i].predicate]

\* C22: Condition options accumulate: while Delay applies the options the
\* condition list holds every predicate passed, in the order passed.  A
\* phase is delayed iff all of them return true for the request (always,
\* with an empty list).  The predicates called in a phase are a prefix of
\* the list, each but the last called has returned true, and the calls stop
\* short of the end of the list only after a predicate that returned false.
C22_ConditionsAccumulate ==
    /\ ~built => cfg.conditions = PredicatesPassed
    /\ \A r \in Requests : \A p \in Phases :
         Ran(r, p) =>
            LET n == Len(called[r][p])
            IN  /\ Delayed(r, p) <=> ConditionsMet(r)
                /\ cfg.conditions = << >> => Delayed(r, p)
                /\ n <= Len(cfg.conditions)
                /\ called[r][p] = SubSeq(cfg.conditions, 1, n)
                /\ \A i \in 1..(n - 1) : Eval(called[r][p][i], req[r])
                /\ n < Len(cfg.conditions) =>
                     (n > 0 /\ ~Eval(called[r][p][n], req[r]))

\* A request that fails the first of two different conditions and would
\* meet the second has been served without delay, only the first predicate
\* having been called, in each phase.
C22_Witness ==
    \E r \in Requests :
        /\ pc[r] = "done"
        /\ Len(cfg.conditions) = 2
        /\ cfg.conditions[1] # cfg.conditions[2]
        /\ ~Eval(cfg.conditions[1], req[r])
        /\ Eval(cfg.conditions[2], req[r])
        /\ \A p \in Phases :
             called[r][p] = <<cfg.conditions[1]>> /\ ~Delayed(r, p)

\* C23: a request that is already cancelled when the delayed handler is
\* entered is never handed to the wrapped handler, whatever the config and
\* the request: the closure is at most in cfg.before or just out of it, or
\* has returned early; no time was waited, nothing was written and the
\* after-phase has not begun.
C23_CancelledAtEntry ==
    \A r \in Requests :
        cancelled[r] =>
            /\ invoked[r] = 0
            /\ pc[r] \in {"start", "beforeWait", "afterBefore", "cancelledEarly"}
            /\ response[r] = << >>
            /\ TotalWaited(r) = 0
            /\ NoAfterPhase(r)

\* In header mode a request without a "delay-before" header, cancelled at
\* entry, went through a before-wait of duration zero which ended by its
\* timer, and the delayed handler returned without invoking the handler.
C23_Witness ==
    \E r \in Requests :
        /\ cancelled[r]
        /\ pc[r] = "cancelledEarly"
        /\ HeaderMode
        /\ req[r].header["delay-before"] = Empty
        /\ cfg.conditions # << >>
        /\ dur[r]["before"] = <<0>>
        /\ outcome[r]["before"] = "completed"
        /\ invoked[r] = 0

CancelledInAfterWait(r) == pc[r] = "afterWait" /\ cancelled[r]

\* C24: when the request is cancelled during the after-wait, the wait ends
\* at once (the Done case of its select is ready and no more time elapses in
\* it) and the delayed handler returns (Done); the wrapped handler has by
\* then been invoked exactly once and has returned, and what it wrote stays
\* as it is, during the rest of the wait and after the return.
C24_CancelledInAfterWait ==
    /\ [](\A r \in Requests :
            CancelledInAfterWait(r) =>
                /\ invoked[r] = 1
                /\ response[r] = <<HelloWorld>>
                /\ ENABLED ContextDone(r)
                /\ ~ENABLED Tick(r))
    /\ [][\A r \in Requests :
            CancelledInAfterWait(r) =>
                /\ pc'[r] \in {"afterWait", "done"}
                /\ waited'[r] = waited[r]
                /\ invoked'[r] = invoked[r]
                /\ response'[r] = response[r]]_vars
    /\ [][\A r \in Requests :
            pc[r] = "done" =>
                /\ pc'[r] = "done"
                /\ invoked'[r] = invoked[r]
                /\ response'[r] = response[r]]_vars
    /\ \A r \in {1} : CancelledInAfterWait(r) ~> pc[r] = "done"

\* The after-wait of a request was cut short by the cancellation, part of
\* its duration having elapsed, and the delayed handler has returned with
\* the handler's output in the response.
C24_Witness ==
    \E r \in Requests :
        /\ pc[r] = "done"
        /\ cancelled[r]
        /\ outcome[r]["after"] = "cancelled"
        /\ waited[r]["after"] > 0
        /\ waited[r]["after"] < dur[r]["after"][1]
        /\ invoked[r] = 1
        /\ response[r] = <<HelloWorld>>

\* C25: a negative requested duration is only clamped from above.  Fixed
\* stores negative values as they are and a header such as "-1s" parses to
\* a negative duration; the duration resolved from a negative request d is
\* min(d, max), still negative; its timer has elapsed when the select is
\* reached, no time is waited in that phase, and the handler is invoked,
\* respectively the request finishes, with nothing waited in it.
C25_NegativeNotFloored ==
    /\ (~built /\ OptionsOfKind("Fixed") # {}) =>
          /\ cfg.fixedDurationBefore = LastOption("Fixed").before
          /\ cfg.fixedDurationAfter = LastOption("Fixed").after
    /\ \A r \in Requests : \A p \in Phases :
         Delayed(r, p) =>
            LET d == IF HeaderMode THEN HeaderDuration(r, "delay", p)
                     ELSE IF p = "before" THEN cfg.fixedDurationBefore
                     ELSE cfg.fixedDurationAfter
            IN  /\ (HeaderMode /\ req[r].header["delay-" \o p] = <<"-", "1", "s">>)
                     => d = 0 - 1 * Second
                /\ d < 0 =>
                     /\ dur[r][p] = <<Min(d, cfg.max)>>
                     /\ dur[r][p][1] < 0
                     /\ waited[r][p] = 0
                     /\ (Waiting(r) /\ phaseOf(r) = p) =>
                          (timerCase(r) /\ timer[r] < 0)
                     /\ (p = "before" /\ pc[r] = "invoking") =>
                          TotalWaited(r) = 0

\* With the default max, in header mode, a request asking for "-1s" before
\* and "-1s" after the handler was served: both durations resolved to -1s
\* and nothing was waited.
C25_Witness ==
    \E r \in Requests :
        /\ pc[r] = "done"
        /\ ~cancelled[r]
        /\ HeaderMode
        /\ cfg.max = DefaultMax
        /\ \A p \in Phases :
             /\ req[r].header["delay-" \o p] = <<"-", "1", "s">>
             /\ dur[r][p] = <<0 - 1 * Second>>
             /\ outcome[r][p] = "completed"
        /\ TotalWaited(r) = 0
        /\ invoked[r] = 1

\* The config Delay builds from a list of options:
\* "for _, opt := range opts { opt(&cfg) }" from the defaults.
RECURSIVE ConfigOf(_)
ConfigOf(options) ==
    IF options = << >> THEN DefaultConfig
    ELSE LET c == ConfigOf(SubSeq(options, 1, Len(options) - 1))
             opt == options[Len(options)]
         IN  CASE opt.kind = "Fixed" -> FixedOption(c, opt.before, opt.after)
               [] opt.kind = "Header" -> HeaderOption(c, opt.prefix)
               [] opt.kind = "Max" -> MaxOption(c, opt.maxDuration)
               [] opt.kind = "Condition" -> ConditionOption(c, opt.predicate)

\* The options of the list that are not Header options.
WithoutHeader == SelectSeq(opts, LAMBDA opt : opt.kind # "Header")

FixedDuration(p) ==
    IF p = "before" THEN cfg.fixedDurationBefore ELSE cfg.fixedDurationAfter

\* Every request's durations come from the fixed values alone, whatever its
\* headers.
ResolvedFromFixed ==
    \A in \in RequestInputs : \A p \in Phases :
        resolved(cfg, in, p) = Min(FixedDuration(p), cfg.max)

====
